---- MODULE Spec2Model ----
(***************************************************************************)
(* foxblat plugin manager (src/foxblat/plugin_manager.py): plugin          *)
(* discovery, device matching, the device monitor loop and the per-plugin  *)
(* panel lifecycle, with the monitor thread and the host (UI) thread       *)
(* sharing the registry under _plugins_lock.                               *)
(***************************************************************************)
EXTENDS Integers, Sequences, FiniteSets, TLC

\* ------------------------------------------------------------------ bounds
\* number of device paths the OS can report (/dev/input/event1 ..)
MaxPaths == 2
\* number of calls into plugin code that raise during one run
MaxFaults == 1
\* number of monitor worker threads a run can spawn
MaxThreads == 2

Paths == 1..MaxPaths
Threads == 1..MaxThreads

None == "None"

\* ------------------------------------------------------------------ strings
\* Strings that the code inspects are sequences of one-character strings.
Letters == <<
  <<"A","a">>, <<"B","b">>, <<"C","c">>, <<"D","d">>, <<"E","e">>, <<"F","f">>,
  <<"H","h">>, <<"K","k">>, <<"L","l">>, <<"P","p">>, <<"W","w">>, <<"X","x">>,
  <<"Y","y">> >>

\* str.lower() of one character, as re.IGNORECASE folds it
LowerChar(c) ==
  IF \E i \in 1..Len(Letters) : Letters[i][1] = c
  THEN Letters[CHOOSE i \in 1..Len(Letters) : Letters[i][1] = c][2]
  ELSE c

Lower(s) == [i \in 1..Len(s) |-> LowerChar(s[i])]

HexDigits == <<"0","1","2","3","4","5","6","7","8","9","a","b","c","d","e","f">>

HexDigit(c) == (CHOOSE i \in 1..Len(HexDigits) : HexDigits[i] = LowerChar(c)) - 1

RECURSIVE HexValue(_)
HexValue(s) ==
  IF Len(s) = 0 THEN 0
  ELSE 16 * HexValue(SubSeq(s, 1, Len(s) - 1)) + HexDigit(s[Len(s)])

\* int(s, 16): an optional "0x" prefix, then hexadecimal digits
IntBase16(s) ==
  IF Len(s) >= 2 /\ s[1] = "0" /\ LowerChar(s[2]) = "x"
  THEN HexValue(SubSeq(s, 3, Len(s)))
  ELSE HexValue(s)

\* re.search(pattern, name, re.IGNORECASE) for a pattern of literal characters
ReSearchIgnoreCase(pattern, name) ==
  \E i \in 0..(Len(name) - Len(pattern)) :
     Lower(SubSeq(name, i + 1, i + Len(pattern))) = Lower(pattern)

\* ------------------------------------------------------------------ matcher
\* A rule field is absent ([t |-> "none"]), an integer ([t |-> "int", v |-> n])
\* or a string ([t |-> "str", s |-> <<chars>>]).
Absent == [t |-> "none"]
IntV(n) == [t |-> "int", v |-> n]
StrV(s) == [t |-> "str", s |-> s]

RuleInt(x) == IF x.t = "str" THEN IntBase16(x.s) ELSE x.v

\* a rule that asks for every condition it declares, ids and pattern together
RuleMatches_AllDeclared(rule, device) ==
  /\ rule.vendor_id.t # "none" /\ rule.product_id.t # "none" =>
       /\ device.vendor = RuleInt(rule.vendor_id)
       /\ device.product = RuleInt(rule.product_id)
  /\ rule.name_pattern.t # "none" =>
       ReSearchIgnoreCase(rule.name_pattern.s, device.name)
  /\ \/ rule.vendor_id.t # "none" /\ rule.product_id.t # "none"
     \/ rule.name_pattern.t # "none"

\* lines 24-38: one rule of the list
RuleMatches(rule, device) ==
  \/ /\ rule.vendor_id.t # "none"
     /\ rule.product_id.t # "none"
     /\ device.vendor = RuleInt(rule.vendor_id)
     /\ device.product = RuleInt(rule.product_id)
  \/ /\ rule.name_pattern.t # "none"
     /\ ReSearchIgnoreCase(rule.name_pattern.s, device.name)

\* PluginMatcher.matches: the first satisfied rule returns True
matches(rules, device) ==
  \E i \in 1..Len(rules) : RuleMatches(rules[i], device)

\* ------------------------------------------------------------------ devices
\* What evdev.InputDevice(path) reports for each path.
InputDevice(path) ==
  CASE path = 1 ->
         [path |-> 1, name |-> <<"A","C","E"," ","W","h","e","e","l">>,
          vendor |-> 18, product |-> 52]
    [] path = 2 ->
         [path |-> 2, name |-> <<"P","E","D","A","L">>,
          vendor |-> 7, product |-> 9]
    [] OTHER ->
         [path |-> path, name |-> <<"K","e","y","p","a","d">>,
          vendor |-> 1, product |-> 1]

\* PluginDeviceInfo(name, vendor_id, product_id, path)
PluginDeviceInfo(device) ==
  [name |-> device.name, vendor_id |-> device.vendor,
   product_id |-> device.product, path |-> device.path]

\* ------------------------------------------------------------------ bundles
\* One plugin bundle directory as _load_plugin sees it.
\*   has_json, has_init : the two files exist
\*   json    : "object" | "syntax" (json.JSONDecodeError) | "number" (valid JSON, not an object)
\*   fields  : the keys of the metadata object
\*   module  : "ok" | "raises" (exec_module raises)
\*   attr    : what getattr(module, panel_class) is:
\*             "missing" | "panel" (a PluginPanel subclass) | "class" (another class)
\*             | "function" (not a class)
\*   title   : panel_title, where "panel_title" is among the fields
\*   devices : the rule list
WheelRules ==
  << [vendor_id |-> StrV(<<"0","x","1","2">>), product_id |-> StrV(<<"0","x","3","4">>),
      name_pattern |-> Absent] >>

PedalRules ==
  << [vendor_id |-> IntV(7), product_id |-> Absent, name_pattern |-> Absent],
     [vendor_id |-> Absent, product_id |-> Absent, name_pattern |-> StrV(<<"w","h","e","e","l">>)],
     [vendor_id |-> IntV(7), product_id |-> IntV(9), name_pattern |-> StrV(<<"x">>)] >>

RequiredFields == {"name", "panel_class", "devices"}

GoodBundle(title, rules) ==
  [has_json |-> TRUE, has_init |-> TRUE, json |-> "object",
   fields |-> IF title = None THEN RequiredFields ELSE RequiredFields \cup {"panel_title"},
   module |-> "ok", attr |-> "panel", title |-> title, devices |-> rules]

Good == GoodBundle(None, WheelRules)

\* the bundle contents discovery is exercised on: one per check of _load_plugin
BundleKinds ==
  { Good,
    [Good EXCEPT !.has_json = FALSE],
    [Good EXCEPT !.has_init = FALSE],
    [Good EXCEPT !.json = "syntax"],
    [Good EXCEPT !.json = "number"],
    [Good EXCEPT !.fields = {"name", "devices"}],
    [Good EXCEPT !.module = "raises"],
    [Good EXCEPT !.attr = "missing"],
    [Good EXCEPT !.attr = "class"],
    [Good EXCEPT !.attr = "function"] }

\* os.listdir(plugins_path): the bundle directory names, in the order returned
Names == {"wheel", "pedal", "broken"}

MainListDir == <<"wheel", "pedal", "broken">>

ListDirOrders ==
  { order \in [1..Cardinality(Names) -> Names] :
      \A a, b \in DOMAIN order : order[a] = order[b] => a = b }

\* the plugins directory of the running application: two valid bundles whose
\* titles are distinct or equal, and one bundle without plugin.json
MainFiles ==
  { [wheel |-> GoodBundle(None, WheelRules),
     pedal |-> GoodBundle(None, PedalRules),
     broken |-> [Good EXCEPT !.has_json = FALSE]],
    [wheel |-> GoodBundle("Sim", WheelRules),
     pedal |-> GoodBundle("Sim", PedalRules),
     broken |-> [Good EXCEPT !.has_json = FALSE]] }

\* ------------------------------------------------------------------ state
VARIABLES
  files,             \* the bundle directories under the plugins root: name -> bundle
  listdir,           \* the order os.listdir returns them in
  _plugins,          \* the registry: LoadedPlugin records in dict (insertion) order
  _button_callback,  \* the UI callback, None until get_plugin_panels supplies one
  _running,          \* the Event the monitor loop tests
  _plugins_lock,     \* 0 when free, else the monitor thread holding it
  started,           \* start() was called
  threads,           \* monitor threads spawned so far
  mon,               \* each monitor thread's frame of _device_scan_loop
  ui,                \* the host thread: "idle", or inside get_plugin_panels / stop
  op,                \* the latest operation that took the lock
  calls,             \* the calls into plugin code that operation made, in order
  ret,               \* what the latest host query returned
  signal,            \* per plugin: the argument of the latest active() call, 0 if none
  events,            \* how often each event was dispatched, per plugin name
  escaped,           \* the operations an exception propagated out of
  faults,            \* calls into plugin code that raised so far
  next_id            \* per plugin: the serial number of the next panel object constructed

vars == << files, listdir, _plugins, _button_callback, _running, _plugins_lock,
           started, threads, mon, ui, op, calls, ret, signal, events, escaped,
           faults, next_id >>

\* LoadedPlugin.panel_instance = None; a panel object is known by its plugin's
\* name and its serial number among the panels constructed for that name
NoPanel == 0

PanelObject(plugin) == << plugin.name, plugin.panel_instance >>

\* ------------------------------------------------------------------ loader
\* LoadedPlugin.__init__
LoadedPlugin(name, bundle) ==
  [name |-> name,
   metadata |-> [panel_title |-> bundle.title, devices |-> bundle.devices],
   panel_instance |-> NoPanel,
   connected_devices |-> << >>]

\* _load_plugin(name, path): "loaded", "error" (one plugin-load-error dispatched,
\* returns False) or "raise" (an exception leaves _load_plugin)
_load_plugin(bundle) ==
  IF ~bundle.has_json THEN "error"
  ELSE IF ~bundle.has_init THEN "error"
  ELSE IF bundle.json = "syntax" THEN "error"
  \* `field not in metadata` on a JSON number: TypeError, not caught
  ELSE IF bundle.json = "number" THEN "raise"
  ELSE IF ~(RequiredFields \subseteq bundle.fields) THEN "error"
  ELSE IF bundle.module = "raises" THEN "error"
  ELSE IF bundle.attr = "missing" THEN "error"
  \* issubclass(panel_class, PluginPanel) on a non-class: TypeError, not caught
  ELSE IF bundle.attr = "function" THEN "raise"
  ELSE IF bundle.attr # "panel" THEN "error"
  ELSE "loaded"

\* self._plugins[name] = LoadedPlugin(...): a dict keeps the position of an
\* existing key and appends a new one
DictSet(registry, record) ==
  IF \E i \in 1..Len(registry) : registry[i].name = record.name
  THEN [i \in 1..Len(registry) |->
          IF registry[i].name = record.name THEN record ELSE registry[i]]
  ELSE Append(registry, record)

Bump(counter, name) == [counter EXCEPT ![name] = @ + 1]

\* _discover_plugins from entry i of the listing on: d = [plugins, errors, raised]
RECURSIVE DiscoverFrom(_, _, _, _)
DiscoverFrom(d, dir, order, i) ==
  IF i > Len(order) \/ d.raised THEN d
  ELSE LET name == order[i]
           outcome == _load_plugin(dir[name])
       IN DiscoverFrom(
            CASE outcome = "loaded" ->
                   [d EXCEPT !.plugins = DictSet(@, LoadedPlugin(name, dir[name]))]
              [] outcome = "error" ->
                   [d EXCEPT !.errors = Bump(@, name)]
              [] OTHER ->
                   [d EXCEPT !.raised = TRUE],
            dir, order, i + 1)

_discover_plugins(registry, errors, dir, order) ==
  DiscoverFrom([plugins |-> registry, errors |-> errors, raised |-> FALSE],
               dir, order, 1)

\* ------------------------------------------------------------------ plugin calls
\* A locked operation is run on a context c:
\*   plugins, i : the registry and the index of the record being visited
\*   calls, n   : the calls into plugin code made so far, and how many
\*   signal, events, next_id : as the variables
\*   exc        : an exception is propagating
\*   returned, value : a return statement was executed, and its value
\* F is the set of call ordinals (within the step) whose call raises.
Context(registry, i, log) ==
  [plugins |-> registry, i |-> i, calls |-> log, n |-> 0, signal |-> signal,
   events |-> events, next_id |-> next_id, exc |-> FALSE,
   returned |-> FALSE, value |-> << >>]

Cur(c) == c.plugins[c.i]

\* the sets of at most k call ordinals out of 1..n
RECURSIVE FaultSets(_, _)
FaultSets(n, k) ==
  IF k = 0 THEN {{}}
  ELSE LET S == FaultSets(n, k - 1)
       IN S \cup {s \cup {x} : s \in S, x \in 1..n}

\* upper bounds on the calls made while visiting one record, and in one pass
\* over the registry from record i on
RecordCallBound(plugin) == 4 + 2 * Len(plugin.connected_devices)

RECURSIVE CallBound(_, _)
CallBound(registry, i) ==
  IF i > Len(registry) THEN 0
  ELSE RecordCallBound(registry[i]) + CallBound(registry, i + 1)

\* one call of a method of the current record's panel (or of its panel class)
PluginCall(c, F, method, sig, path) ==
  LET k == c.n + 1
  IN [c EXCEPT
        !.n = k,
        !.calls = Append(@, [plugin |-> Cur(c).name, method |-> method,
                             signal |-> sig, path |-> path, raised |-> k \in F]),
        !.signal = IF method = "active" THEN [@ EXCEPT ![Cur(c).name] = sig] ELSE @,
        !.exc = k \in F]

\* except Exception as e: print(...)
Caught(c) == [c EXCEPT !.exc = FALSE]

\* self._dispatch(event, plugin.name, ...)
_dispatch(c, event) == [c EXCEPT !.events[event] = Bump(@, Cur(c).name)]

\* lines 304-308: for device_info in plugin.connected_devices, each in its own try
RECURSIVE NotifyExisting(_, _, _)
NotifyExisting(c, F, j) ==
  IF j > Len(Cur(c).connected_devices) THEN c
  ELSE NotifyExisting(
         Caught(PluginCall(c, F, "on_device_connected", 0,
                           Cur(c).connected_devices[j].path)),
         F, j + 1)

\* _instantiate_plugin_panel without the replay of the devices already connected
_instantiate_plugin_panel_NoReplay(c, F) ==
  LET handler(x) == _dispatch(Caught(x), "load_error")
      c1 == PluginCall(c, F, "__init__", 0, 0)
  IN IF c1.exc THEN handler(c1)
     ELSE
       LET c2 == [c1 EXCEPT !.plugins[c1.i].panel_instance = c1.next_id[Cur(c1).name],
                            !.next_id = Bump(@, Cur(c1).name)]
           c3 == PluginCall(c2, F, "active", -2, 0)
       IN IF c3.exc THEN handler(c3)
          ELSE IF Len(Cur(c3).connected_devices) > 0
               THEN LET c5 == PluginCall(c3, F, "active", 1, 0)
                    IN IF c5.exc THEN handler(c5) ELSE _dispatch(c5, "available")
               ELSE _dispatch(c3, "available")

\* lines 284-317: one try around the constructor, active(-2), the replay of the
\* connected devices, active(1) and the plugin-panel-available dispatch
_instantiate_plugin_panel(c, F) ==
  LET handler(x) == _dispatch(Caught(x), "load_error")
      c1 == PluginCall(c, F, "__init__", 0, 0)
  IN IF c1.exc THEN handler(c1)
     ELSE
       LET c2 == [c1 EXCEPT !.plugins[c1.i].panel_instance = c1.next_id[Cur(c1).name],
                            !.next_id = Bump(@, Cur(c1).name)]
           c3 == PluginCall(c2, F, "active", -2, 0)
       IN IF c3.exc THEN handler(c3)
          ELSE
            LET c4 == NotifyExisting(c3, F, 1)
            IN IF Len(Cur(c4).connected_devices) > 0
               THEN LET c5 == PluginCall(c4, F, "active", 1, 0)
                    IN IF c5.exc THEN handler(c5) ELSE _dispatch(c5, "available")
               ELSE _dispatch(c4, "available")

\* lines 239-262: the body of _handle_device_connected for the record c.i
ConnectedPlugin(c, F, device, callback) ==
  IF ~matches(Cur(c).metadata.devices, device) THEN c
  ELSE
    LET device_info == PluginDeviceInfo(device)
        c1 == [c EXCEPT !.plugins[c.i].connected_devices = Append(@, device_info)]
        panel_just_created == Cur(c1).panel_instance = NoPanel /\ callback # None
        c2 == IF panel_just_created THEN _instantiate_plugin_panel(c1, F) ELSE c1
    IN IF Cur(c2).panel_instance # NoPanel /\ ~panel_just_created
       THEN LET c3 == PluginCall(c2, F, "on_device_connected", 0, device_info.path)
            IN IF c3.exc THEN Caught(c3)
               ELSE Caught(PluginCall(c3, F, "active", 1, 0))
       ELSE c2

\* list.remove(x): drops the first element equal to x
RECURSIVE ListRemove(_, _)
ListRemove(list, x) ==
  IF Len(list) = 0 THEN list
  ELSE IF Head(list) = x THEN Tail(list)
  ELSE << Head(list) >> \o ListRemove(Tail(list), x)

\* the body of _handle_device_disconnected discarding the panel with the last device
RECURSIVE DisconnectedPlugin_DropPanel(_, _, _, _, _)
DisconnectedPlugin_DropPanel(c, F, path, copy, j) ==
  IF j > Len(copy) \/ c.exc THEN c
  ELSE IF copy[j].path # path THEN DisconnectedPlugin_DropPanel(c, F, path, copy, j + 1)
  ELSE
    LET c1 == [c EXCEPT !.plugins[c.i].connected_devices = ListRemove(@, copy[j])]
        c2 == IF Cur(c1).panel_instance # NoPanel
              THEN Caught(PluginCall(c1, F, "on_device_disconnected", 0, copy[j].path))
              ELSE c1
        c3 == IF Len(Cur(c2).connected_devices) = 0 /\ Cur(c2).panel_instance # NoPanel
              THEN [PluginCall(c2, F, "active", -1, 0)
                      EXCEPT !.plugins[c.i].panel_instance = NoPanel]
              ELSE c2
    IN DisconnectedPlugin_DropPanel(c3, F, path, copy, j + 1)

\* the body of _handle_device_disconnected without "hide panel if no devices left"
RECURSIVE DisconnectedPlugin_NoDeactivate(_, _, _, _, _)
DisconnectedPlugin_NoDeactivate(c, F, path, copy, j) ==
  IF j > Len(copy) \/ c.exc THEN c
  ELSE IF copy[j].path # path THEN DisconnectedPlugin_NoDeactivate(c, F, path, copy, j + 1)
  ELSE
    LET c1 == [c EXCEPT !.plugins[c.i].connected_devices = ListRemove(@, copy[j])]
        c2 == IF Cur(c1).panel_instance # NoPanel
              THEN Caught(PluginCall(c1, F, "on_device_disconnected", 0, copy[j].path))
              ELSE c1
    IN DisconnectedPlugin_NoDeactivate(c2, F, path, copy, j + 1)

\* lines 268-282: the body of _handle_device_disconnected for the record c.i,
\* from element j of the copy of its device list on
RECURSIVE DisconnectedPlugin(_, _, _, _, _)
DisconnectedPlugin(c, F, path, copy, j) ==
  IF j > Len(copy) \/ c.exc THEN c
  ELSE IF copy[j].path # path THEN DisconnectedPlugin(c, F, path, copy, j + 1)
  ELSE
    LET c1 == [c EXCEPT !.plugins[c.i].connected_devices = ListRemove(@, copy[j])]
        c2 == IF Cur(c1).panel_instance # NoPanel
              THEN Caught(PluginCall(c1, F, "on_device_disconnected", 0, copy[j].path))
              ELSE c1
        c3 == IF Len(Cur(c2).connected_devices) = 0 /\ Cur(c2).panel_instance # NoPanel
              THEN PluginCall(c2, F, "active", -1, 0)
              ELSE c2
    IN DisconnectedPlugin(c3, F, path, copy, j + 1)

\* ------------------------------------------------------------------ construction
NoCounts == [name \in Names |-> 0]

NoEvents == [path \in Paths |-> 0]

\* a monitor thread's frame: its place in _device_scan_loop, the loop's locals,
\* the path and the record index of the handler it is in, and how often this
\* iteration called each handler for each path
NoFrame ==
  [pc |-> "none", known_devices |-> {}, current_paths |-> {}, new_paths |-> {},
   removed_paths |-> {}, path |-> 0, i |-> 0,
   connects |-> NoEvents, disconnects |-> NoEvents]

NoOp == [kind |-> "none", path |-> 0, name |-> None, thread |-> 0]

\* PluginManager.__init__
Constructed ==
  /\ _plugins = << >>
  /\ _button_callback = None
  /\ _running = FALSE
  /\ _plugins_lock = 0
  /\ started = FALSE
  /\ threads = 0
  /\ mon = [t \in Threads |-> NoFrame]
  /\ ui = "idle"
  /\ op = NoOp
  /\ calls = << >>
  /\ ret = [kind |-> "none"]
  /\ signal = NoCounts
  /\ events = [available |-> NoCounts, unavailable |-> NoCounts, load_error |-> NoCounts]
  /\ escaped = {}
  /\ faults = 0
  /\ next_id = [name \in Names |-> 1]

Init ==
  /\ files \in MainFiles
  /\ listdir = MainListDir
  /\ Constructed

\* what a finished locked step leaves in the variables
Commit(c, F) ==
  /\ F \subseteq 1..c.n
  /\ _plugins' = c.plugins
  /\ calls' = c.calls
  /\ signal' = c.signal
  /\ events' = c.events
  /\ next_id' = c.next_id
  /\ faults' = faults + Cardinality(F)

\* the calls that may raise in a pass over the registry, and in a visit of one record
Faults(registry) == FaultSets(CallBound(registry, 1), MaxFaults - faults)
RecordFaults(plugin) == FaultSets(RecordCallBound(plugin), MaxFaults - faults)

\* ------------------------------------------------------------------ start
\* start(): _discover_plugins, then _start_device_monitoring spawns the worker,
\* which sleeps one second before its loop. An exception of discovery leaves
\* start() before the monitor is started.
start ==
  /\ ~started
  /\ ui = "idle"
  /\ threads < MaxThreads
  /\ started' = TRUE
  /\ LET d == _discover_plugins(_plugins, events.load_error, files, listdir)
     IN /\ _plugins' = d.plugins
        /\ events' = [events EXCEPT !.load_error = d.errors]
        /\ IF d.raised
           THEN /\ escaped' = escaped \cup {"start"}
                /\ UNCHANGED << _running, threads, mon >>
           ELSE /\ _running' = TRUE
                /\ threads' = threads + 1
                /\ mon' = [mon EXCEPT ![threads + 1] = [NoFrame EXCEPT !.pc = "while"]]
                /\ UNCHANGED escaped
  /\ UNCHANGED << files, listdir, _button_callback, _plugins_lock, ui, op, calls,
                  ret, signal, faults, next_id >>

\* start() on a manager that was started before: discovery loads every bundle
\* again, each loaded bundle's record replacing the one of the same name
\* (line 180, under the lock), then the running flag is set and one more
\* worker is spawned; nothing ends the workers spawned before.
start_again ==
  /\ started
  /\ ui = "idle"
  /\ threads < MaxThreads
  /\ _plugins_lock = 0
  /\ LET d == _discover_plugins(_plugins, events.load_error, files, listdir)
     IN /\ _plugins' = d.plugins
        /\ events' = [events EXCEPT !.load_error = d.errors]
        /\ IF d.raised
           THEN /\ escaped' = escaped \cup {"start"}
                /\ UNCHANGED << _running, threads, mon >>
           ELSE /\ _running' = TRUE
                /\ threads' = threads + 1
                /\ mon' = [mon EXCEPT ![threads + 1] = [NoFrame EXCEPT !.pc = "while"]]
                /\ UNCHANGED escaped
  /\ UNCHANGED << files, listdir, _button_callback, _plugins_lock, started, ui, op,
                  calls, ret, signal, faults, next_id >>

\* ------------------------------------------------------------------ monitor
\* a loop that goes on to the next enumeration whatever the running flag says
LoopTest_IgnoresFlag(t) ==
  /\ mon[t].pc = "while"
  /\ mon' = [mon EXCEPT ![t].pc = "list"]
  /\ UNCHANGED << files, listdir, _plugins, _button_callback, _running,
                  _plugins_lock, started, threads, ui, op, calls, ret, signal,
                  events, escaped, faults, next_id >>

\* line 204: while self._running.is_set()
LoopTest(t) ==
  /\ mon[t].pc = "while"
  /\ mon' = [mon EXCEPT ![t].pc = IF _running THEN "list" ELSE "exited"]
  /\ UNCHANGED << files, listdir, _plugins, _button_callback, _running,
                  _plugins_lock, started, threads, ui, op, calls, ret, signal,
                  events, escaped, faults, next_id >>

\* lines 205-228: evdev.list_devices() returns `listed`; the devices in
\* `failing` fail to open and are skipped; then the two differences
ListDevices(t) ==
  /\ mon[t].pc = "list"
  /\ \E listed \in SUBSET Paths : \E failing \in SUBSET listed :
       LET current_paths == listed \ failing
       IN mon' = [mon EXCEPT ![t].pc = "events",
                             ![t].current_paths = current_paths,
                             ![t].connects = NoEvents,
                             ![t].disconnects = NoEvents,
                             ![t].new_paths = current_paths \ mon[t].known_devices,
                             ![t].removed_paths = mon[t].known_devices \ current_paths]
  /\ UNCHANGED << files, listdir, _plugins, _button_callback, _running,
                  _plugins_lock, started, threads, ui, op, calls, ret, signal,
                  events, escaped, faults, next_id >>

\* evdev.list_devices() raising with no handler around it: the worker ends
ListDevicesError_Uncaught(t) ==
  /\ mon[t].pc = "list"
  /\ mon' = [mon EXCEPT ![t].pc = "dead"]
  /\ UNCHANGED << files, listdir, _plugins, _button_callback, _running,
                  _plugins_lock, started, threads, ui, op, calls, ret, signal,
                  events, escaped, faults, next_id >>

\* lines 214-217: evdev.list_devices() raises; sleep(3); continue
ListDevicesError(t) ==
  /\ mon[t].pc = "list"
  /\ mon' = [mon EXCEPT ![t].pc = "backoff"]
  /\ UNCHANGED << files, listdir, _plugins, _button_callback, _running,
                  _plugins_lock, started, threads, ui, op, calls, ret, signal,
                  events, escaped, faults, next_id >>

Backoff(t) ==
  /\ mon[t].pc = "backoff"
  /\ mon' = [mon EXCEPT ![t].pc = "while"]
  /\ UNCHANGED << files, listdir, _plugins, _button_callback, _running,
                  _plugins_lock, started, threads, ui, op, calls, ret, signal,
                  events, escaped, faults, next_id >>

\* the handler call counts after thread t, at the for loop, calls a handler for path
Called(t, counts, path) ==
  IF mon[t].pc = "events" THEN [counts EXCEPT ![path] = @ + 1] ELSE counts

\* lines 223-225 and 235-262: the next new path's _handle_device_connected takes
\* the lock and visits the first record; later steps visit the following
\* records; the step that visits the last record leaves the with block.
_handle_device_connected(t) ==
  /\ \/ /\ mon[t].pc = "events"
        /\ mon[t].new_paths # {}
        /\ _plugins_lock = 0
     \/ /\ mon[t].pc = "connected"
        /\ _plugins_lock = t
  /\ \E path \in (IF mon[t].pc = "events" THEN mon[t].new_paths ELSE {mon[t].path}) :
       LET i == IF mon[t].pc = "events" THEN 1 ELSE mon[t].i
           log == IF mon[t].pc = "events" THEN << >> ELSE calls
           last == i >= Len(_plugins)
       IN /\ op' = [NoOp EXCEPT !.kind = "connect", !.path = path, !.thread = t]
          /\ mon' = [mon EXCEPT ![t].pc = IF last THEN "events" ELSE "connected",
                                ![t].path = path,
                                ![t].i = IF last THEN 0 ELSE i + 1,
                                ![t].new_paths = @ \ {path},
                                ![t].connects = Called(t, @, path)]
          /\ _plugins_lock' = IF last THEN 0 ELSE t
          /\ IF i > Len(_plugins)
             THEN UNCHANGED << _plugins, signal, events, next_id, faults >> /\ calls' = log
             ELSE \E F \in RecordFaults(_plugins[i]) :
                    Commit(ConnectedPlugin(Context(_plugins, i, log), F,
                                           InputDevice(path), _button_callback), F)
  /\ UNCHANGED << files, listdir, _button_callback, _running, started, threads,
                  ui, ret, escaped >>

\* lines 229-230 and 264-282: likewise for the next removed path. An exception
\* that leaves the handler releases the lock and ends the worker thread.
_handle_device_disconnected(t) ==
  /\ \/ /\ mon[t].pc = "events"
        /\ mon[t].new_paths = {}
        /\ mon[t].removed_paths # {}
        /\ _plugins_lock = 0
     \/ /\ mon[t].pc = "disconnected"
        /\ _plugins_lock = t
  /\ \E path \in (IF mon[t].pc = "events" THEN mon[t].removed_paths ELSE {mon[t].path}) :
       LET i == IF mon[t].pc = "events" THEN 1 ELSE mon[t].i
           log == IF mon[t].pc = "events" THEN << >> ELSE calls
           last == i >= Len(_plugins)
       IN /\ op' = [NoOp EXCEPT !.kind = "disconnect", !.path = path, !.thread = t]
          /\ IF i > Len(_plugins)
             THEN /\ UNCHANGED << _plugins, signal, events, next_id, faults, escaped >>
                  /\ calls' = log
                  /\ _plugins_lock' = 0
                  /\ mon' = [mon EXCEPT ![t].pc = "events", ![t].path = path,
                                        ![t].i = 0, ![t].removed_paths = @ \ {path},
                                        ![t].disconnects = Called(t, @, path)]
             ELSE \E F \in RecordFaults(_plugins[i]) :
                    LET c == DisconnectedPlugin(Context(_plugins, i, log), F, path,
                                                _plugins[i].connected_devices, 1)
                    IN /\ Commit(c, F)
                       /\ escaped' = IF c.exc THEN escaped \cup {"disconnect"} ELSE escaped
                       /\ _plugins_lock' = IF last \/ c.exc THEN 0 ELSE t
                       /\ mon' = [mon EXCEPT
                                    ![t].pc = IF c.exc THEN "dead"
                                              ELSE IF last THEN "events"
                                              ELSE "disconnected",
                                    ![t].path = path,
                                    ![t].i = IF last \/ c.exc THEN 0 ELSE i + 1,
                                    ![t].removed_paths = @ \ {path},
                                    ![t].disconnects = Called(t, @, path)]
  /\ UNCHANGED << files, listdir, _button_callback, _running, started, threads,
                  ui, ret >>

\* lines 232-233: known_devices = current_paths; sleep(3)
EndIteration(t) ==
  /\ mon[t].pc = "events"
  /\ mon[t].new_paths = {}
  /\ mon[t].removed_paths = {}
  /\ mon' = [mon EXCEPT ![t].pc = "while", ![t].known_devices = mon[t].current_paths,
                        ![t].connects = NoEvents, ![t].disconnects = NoEvents]
  /\ UNCHANGED << files, listdir, _plugins, _button_callback, _running,
                  _plugins_lock, started, threads, ui, op, calls, ret, signal,
                  events, escaped, faults, next_id >>

Monitor(t) ==
  \/ LoopTest(t)
  \/ ListDevices(t)
  \/ ListDevicesError(t)
  \/ Backoff(t)
  \/ _handle_device_connected(t)
  \/ _handle_device_disconnected(t)
  \/ EndIteration(t)

\* ------------------------------------------------------------------ host queries
\* the callbacks the host passes to get_plugin_panels
Callbacks == {"button_callback"}

\* the identities the host asks presets for, and the settings it applies
PresetNames == {"wheel", "pedal", "unknown"}
PresetSettings == {"preset"}

\* plugin.metadata.get("panel_title", plugin.name)
Title(plugin) ==
  IF plugin.metadata.panel_title = None THEN plugin.name
  ELSE plugin.metadata.panel_title

\* the value of panel.preset_device_name, and of panel.get_preset_settings()
PresetDeviceName(plugin) == plugin.name
PanelSettings(plugin) == << plugin.name, "settings" >>

\* d[key] = value on a dict
DictPut(d, key, value) ==
  [k \in (DOMAIN d) \cup {key} |-> IF k = key THEN value ELSE d[k]]

\* get_plugin_panels instantiating a panel for records that hold no device too
RECURSIVE PanelsFrom_Unmatched(_, _, _)
PanelsFrom_Unmatched(c, F, i) ==
  IF i > Len(c.plugins) THEN c
  ELSE
    LET c0 == [c EXCEPT !.i = i]
        c1 == IF Cur(c0).panel_instance = NoPanel
              THEN _instantiate_plugin_panel(c0, F)
              ELSE c0
        c2 == IF Cur(c1).panel_instance # NoPanel
              THEN [c1 EXCEPT !.value = DictPut(@, Title(Cur(c1)), PanelObject(Cur(c1)))]
              ELSE c1
    IN PanelsFrom_Unmatched(c2, F, i + 1)

\* lines 328-335, from record i on
RECURSIVE PanelsFrom(_, _, _)
PanelsFrom(c, F, i) ==
  IF i > Len(c.plugins) THEN c
  ELSE
    LET c0 == [c EXCEPT !.i = i]
        matched == Len(Cur(c0).connected_devices) > 0
        c1 == IF matched /\ Cur(c0).panel_instance = NoPanel
              THEN _instantiate_plugin_panel(c0, F)
              ELSE c0
        c2 == IF matched /\ Cur(c1).panel_instance # NoPanel
              THEN [c1 EXCEPT !.value = DictPut(@, Title(Cur(c1)), PanelObject(Cur(c1)))]
              ELSE c1
    IN PanelsFrom(c2, F, i + 1)

\* get_active_plugins listing every record that has a panel
RECURSIVE ActiveFrom_AllPanels(_, _, _)
ActiveFrom_AllPanels(c, F, i) ==
  IF i > Len(c.plugins) \/ c.exc THEN c
  ELSE
    LET c0 == [c EXCEPT !.i = i]
    IN IF Cur(c0).panel_instance # NoPanel
       THEN LET c1 == PluginCall(c0, F, "preset_device_name", 0, 0)
            IN ActiveFrom_AllPanels(
                 IF c1.exc THEN c1
                 ELSE [c1 EXCEPT !.value = DictPut(@, PresetDeviceName(Cur(c1)),
                                                   PanelObject(Cur(c1)))],
                 F, i + 1)
       ELSE ActiveFrom_AllPanels(c0, F, i + 1)

\* lines 348-350, from record i on
RECURSIVE ActiveFrom(_, _, _)
ActiveFrom(c, F, i) ==
  IF i > Len(c.plugins) \/ c.exc THEN c
  ELSE
    LET c0 == [c EXCEPT !.i = i]
    IN IF Cur(c0).panel_instance # NoPanel /\ Len(Cur(c0).connected_devices) > 0
       THEN LET c1 == PluginCall(c0, F, "preset_device_name", 0, 0)
            IN ActiveFrom(
                 IF c1.exc THEN c1
                 ELSE [c1 EXCEPT !.value = DictPut(@, PresetDeviceName(Cur(c1)),
                                                   PanelObject(Cur(c1)))],
                 F, i + 1)
       ELSE ActiveFrom(c0, F, i + 1)

\* lines 356-363, from record i on
RECURSIVE PresetSettingsFrom(_, _, _, _)
PresetSettingsFrom(c, F, device_name, i) ==
  IF i > Len(c.plugins) \/ c.exc \/ c.returned THEN c
  ELSE
    LET c0 == [c EXCEPT !.i = i]
    IN IF Cur(c0).panel_instance = NoPanel
       THEN PresetSettingsFrom(c0, F, device_name, i + 1)
       ELSE
         LET c1 == PluginCall(c0, F, "preset_device_name", 0, 0)
         IN IF c1.exc \/ PresetDeviceName(Cur(c1)) # device_name
            THEN PresetSettingsFrom(c1, F, device_name, i + 1)
            ELSE
              LET c2 == PluginCall(c1, F, "get_preset_settings", 0, 0)
              IN PresetSettingsFrom(
                   IF c2.exc THEN Caught(c2)
                   ELSE [c2 EXCEPT !.returned = TRUE, !.value = PanelSettings(Cur(c2))],
                   F, device_name, i + 1)

\* line 379: the preset identities of every record with a panel, from record i on
RECURSIVE AvailableFrom(_, _, _)
AvailableFrom(c, F, i) ==
  IF i > Len(c.plugins) \/ c.exc THEN c
  ELSE
    LET c0 == [c EXCEPT !.i = i]
    IN AvailableFrom(
         IF Cur(c0).panel_instance # NoPanel
         THEN PluginCall(c0, F, "preset_device_name", 0, 0)
         ELSE c0,
         F, i + 1)

\* lines 368-376, from record i on
RECURSIVE ApplyPresetFrom(_, _, _, _)
ApplyPresetFrom(c, F, device_name, i) ==
  IF i > Len(c.plugins) \/ c.exc \/ c.returned THEN c
  ELSE
    LET c0 == [c EXCEPT !.i = i]
    IN IF Cur(c0).panel_instance = NoPanel
       THEN ApplyPresetFrom(c0, F, device_name, i + 1)
       ELSE
         LET c1 == PluginCall(c0, F, "preset_device_name", 0, 0)
         IN IF c1.exc \/ PresetDeviceName(Cur(c1)) # device_name
            THEN ApplyPresetFrom(c1, F, device_name, i + 1)
            ELSE [Caught(PluginCall(c1, F, "on_preset_loaded", 0, 0))
                    EXCEPT !.returned = TRUE]

\* the shutdown loop without a handler around panel_instance.shutdown()
RECURSIVE ShutdownFrom_Abort(_, _, _)
ShutdownFrom_Abort(c, F, i) ==
  IF i > Len(c.plugins) \/ c.exc THEN c
  ELSE
    LET c0 == [c EXCEPT !.i = i]
    IN ShutdownFrom_Abort(
         IF Cur(c0).panel_instance # NoPanel
         THEN PluginCall(c0, F, "shutdown", 0, 0)
         ELSE c0,
         F, i + 1)

\* lines 93-98, from record i on
RECURSIVE ShutdownFrom(_, _, _)
ShutdownFrom(c, F, i) ==
  IF i > Len(c.plugins) THEN c
  ELSE
    LET c0 == [c EXCEPT !.i = i]
    IN ShutdownFrom(
         IF Cur(c0).panel_instance # NoPanel
         THEN Caught(PluginCall(c0, F, "shutdown", 0, 0))
         ELSE c0,
         F, i + 1)

\* A host operation's locked part, run to its end in one step: c is its final
\* context. An exception that leaves it is recorded; otherwise its value is
\* what the operation returned.
HostStep(kind, name, c, F) ==
  /\ Commit(c, F)
  /\ op' = [NoOp EXCEPT !.kind = kind, !.name = name]
  /\ ret' = IF c.exc THEN [kind |-> "raised"] ELSE [kind |-> kind, value |-> c.value]
  /\ escaped' = IF c.exc THEN escaped \cup {kind} ELSE escaped
  /\ ui' = "idle"
  /\ UNCHANGED << files, listdir, _plugins_lock, started, threads, mon >>

\* line 324: self._button_callback = button_callback, before the lock is taken
get_plugin_panels_enter ==
  /\ ui = "idle"
  /\ \E button_callback \in Callbacks : _button_callback' = button_callback
  /\ ui' = "get_plugin_panels"
  /\ UNCHANGED << files, listdir, _plugins, _running, _plugins_lock, started,
                  threads, mon, op, calls, ret, signal, events, escaped, faults,
                  next_id >>

\* get_plugin_panels walking the registry without waiting for the lock
get_plugin_panels_Unlocked ==
  /\ ui = "get_plugin_panels"
  /\ \E F \in Faults(_plugins) :
       HostStep("get_plugin_panels", None,
                PanelsFrom(Context(_plugins, 1, << >>), F, 1), F)
  /\ UNCHANGED << _button_callback, _running >>

\* lines 325-337
get_plugin_panels ==
  /\ ui = "get_plugin_panels"
  /\ _plugins_lock = 0
  /\ \E F \in Faults(_plugins) :
       HostStep("get_plugin_panels", None,
                PanelsFrom(Context(_plugins, 1, << >>), F, 1), F)
  /\ UNCHANGED << _button_callback, _running >>

\* lines 339-342: return dict(self._plugins)
get_all_loaded_plugins ==
  /\ ui = "idle"
  /\ _plugins_lock = 0
  /\ HostStep("get_all_loaded_plugins", None,
              [Context(_plugins, 1, << >>) EXCEPT !.value = _plugins], {})
  /\ UNCHANGED << _button_callback, _running >>

\* lines 382-385: any(len(p.connected_devices) > 0 for p in self._plugins.values())
has_active_plugins ==
  /\ ui = "idle"
  /\ _plugins_lock = 0
  /\ HostStep("has_active_plugins", None,
              [Context(_plugins, 1, << >>) EXCEPT
                 !.value = \E i \in 1..Len(_plugins) :
                              Len(_plugins[i].connected_devices) > 0], {})
  /\ UNCHANGED << _button_callback, _running >>

\* lines 344-351
get_active_plugins ==
  /\ ui = "idle"
  /\ _plugins_lock = 0
  /\ \E F \in Faults(_plugins) :
       HostStep("get_active_plugins", None,
                ActiveFrom(Context(_plugins, 1, << >>), F, 1), F)
  /\ UNCHANGED << _button_callback, _running >>

get_plugin_preset_settings ==
  /\ ui = "idle"
  /\ _plugins_lock = 0
  /\ \E device_name \in PresetNames : \E F \in Faults(_plugins) :
       HostStep("get_plugin_preset_settings", device_name,
                PresetSettingsFrom(Context(_plugins, 1, << >>), F, device_name, 1), F)
  /\ UNCHANGED << _button_callback, _running >>

apply_plugin_preset_settings ==
  /\ ui = "idle"
  /\ _plugins_lock = 0
  /\ \E device_name \in PresetNames : \E settings \in PresetSettings :
     \E F \in Faults(_plugins) :
       LET c == ApplyPresetFrom(Context(_plugins, 1, << >>), F, device_name, 1)
       IN HostStep("apply_plugin_preset_settings", device_name,
                   IF c.returned \/ c.exc THEN c ELSE AvailableFrom(c, F, 1), F)
  /\ UNCHANGED << _button_callback, _running >>

\* line 90: self._running.clear(), before the lock is taken
stop_enter ==
  /\ ui = "idle"
  /\ started
  /\ _running' = FALSE
  /\ ui' = "stop"
  /\ UNCHANGED << files, listdir, _plugins, _button_callback, _plugins_lock,
                  started, threads, mon, op, calls, ret, signal, events, escaped,
                  faults, next_id >>

\* lines 92-98
stop ==
  /\ ui = "stop"
  /\ _plugins_lock = 0
  /\ \E F \in Faults(_plugins) :
       HostStep("stop", None, ShutdownFrom(Context(_plugins, 1, << >>), F, 1), F)
  /\ UNCHANGED << _button_callback, _running >>

\* The manager with its monitor worker and a host that supplies its UI
\* callback and stops the manager.
Next ==
  \/ start
  \/ \E t \in Threads : Monitor(t)
  \/ get_plugin_panels_enter
  \/ get_plugin_panels
  \/ stop_enter
  \/ stop

Spec == Init /\ [][Next]_vars

\* thread t can take its next step of _device_scan_loop: it is in the loop and,
\* where it is about to enter a handler (lines 237, 266), the lock is free
Ready(t) ==
  \/ mon[t].pc \in {"while", "list", "backoff"}
  \/ /\ mon[t].pc = "events"
     /\ (mon[t].new_paths = {} /\ mon[t].removed_paths = {}) \/ _plugins_lock = 0
  \/ mon[t].pc \in {"connected", "disconnected"} /\ _plugins_lock = t

\* The same, with every spawned worker thread scheduled again and again (weak
\* fairness of its steps, Ready(t) being when Monitor(t) is enabled): its
\* sleeps (lines 200, 216, 233) are finite.
SpecFair ==
  Spec /\ \A t \in Threads : ([]<>(~Ready(t))) \/ ([]<><<mon'[t] # mon[t]>>_vars)

\* The same manager with a host that also uses the preset queries.
NextQueries ==
  \/ start
  \/ \E t \in Threads : Monitor(t)
  \/ get_plugin_panels_enter
  \/ get_plugin_panels
  \/ get_all_loaded_plugins
  \/ has_active_plugins
  \/ get_active_plugins
  \/ get_plugin_preset_settings
  \/ apply_plugin_preset_settings

SpecQueries == Init /\ [][NextQueries]_vars

\* The manager with a host that may call start() again, before or after
\* stop(), and that has not asked for the panels.
NextRestart ==
  \/ start
  \/ start_again
  \/ \E t \in Threads : Monitor(t)
  \/ stop_enter
  \/ stop

SpecRestart == Init /\ [][NextRestart]_vars

\* the rules the matcher is exercised on: ids absent, integers or hexadecimal
\* strings, of the first device, of the second or of neither, with or without
\* a pattern in another case than the device name
MatchRules ==
  { [vendor_id |-> v, product_id |-> p, name_pattern |-> n] :
      v \in {Absent, IntV(18), StrV(<<"0","x","1","2">>), IntV(7)},
      p \in {Absent, StrV(<<"0","X","3","4">>), IntV(9)},
      n \in {Absent, StrV(<<"W","H","E","E","L">>)} }

MatchRuleLists ==
  {<< >>} \cup { << r >> : r \in MatchRules } \cup { << r, q >> : r, q \in MatchRules }

\* The matcher at work: one valid bundle with any of these rule lists, and the
\* worker reporting the devices to it.
InitMatch ==
  /\ \E rules \in MatchRuleLists :
       files = [wheel |-> GoodBundle(None, rules),
                pedal |-> [Good EXCEPT !.has_init = FALSE],
                broken |-> [Good EXCEPT !.has_json = FALSE]]
  /\ listdir = MainListDir
  /\ Constructed

NextMatch ==
  \/ start
  \/ \E t \in Threads : Monitor(t)

SpecMatch == InitMatch /\ [][NextMatch]_vars

\* Discovery on its own: start() on a plugins directory whose bundles are any
\* of the bundle kinds, listed in any order.
InitLoad ==
  /\ files \in [Names -> BundleKinds]
  /\ listdir \in ListDirOrders
  /\ Constructed

SpecLoad == InitLoad /\ [][start]_vars

\* ------------------------------------------------------------------ properties
Loaded(name) == \E i \in 1..Len(_plugins) : _plugins[i].name = name

Holds(plugin, path) ==
  \E j \in 1..Len(plugin.connected_devices) : plugin.connected_devices[j].path = path

Accepts(plugin, path) == matches(plugin.metadata.devices, InputDevice(path))

\* a handler of the monitor has run to its end
HandlerDone(kind) == op.kind = kind /\ _plugins_lock = 0

\* C1: when the connect handler for a device has run, every record whose
\* matcher accepts the device holds it; when the disconnect handler for a path
\* has run, no record holds a device with that path; and no record ever holds
\* a device its matcher rejects.
C1_ConnectDisconnectAllRecords ==
  /\ HandlerDone("connect") =>
       \A i \in 1..Len(_plugins) :
         Accepts(_plugins[i], op.path) => Holds(_plugins[i], op.path)
  /\ HandlerDone("disconnect") =>
       \A i \in 1..Len(_plugins) : ~Holds(_plugins[i], op.path)
  /\ \A i \in 1..Len(_plugins) : \A path \in Paths :
       Holds(_plugins[i], path) => Accepts(_plugins[i], path)

Matched(plugin) == Len(plugin.connected_devices) > 0

HasPanel(plugin) == plugin.panel_instance # NoPanel

\* the calls the latest locked operation made into one plugin's code
PluginCalls(name) == SelectSeq(calls, LAMBDA x : x.plugin = name)

IsCall(x, method, sig, path) == x.method = method /\ x.signal = sig /\ x.path = path

Constructs(name) ==
  \E k \in 1..Len(calls) :
     calls[k].plugin = name /\ calls[k].method = "__init__" /\ ~calls[k].raised

\* the connect handler in progress or last run has visited record i
Visited(i) ==
  /\ op.kind = "connect"
  /\ mon[op.thread].pc = "connected" => i < mon[op.thread].i

\* C2: a panel's latest activation signal is active(1) only while a UI callback
\* is set and its record holds a device; a record has a panel only once a UI
\* callback is set; and a panel constructor is only ever called for a record
\* that holds a device, with a UI callback set.
C2_ActiveOnlyWithCallbackAndDevice ==
  /\ \A i \in 1..Len(_plugins) :
       /\ signal[_plugins[i].name] = 1 =>
            _button_callback # None /\ Matched(_plugins[i])
       /\ HasPanel(_plugins[i]) => _button_callback # None
  /\ \A k \in 1..Len(calls) :
       calls[k].method = "__init__" =>
         /\ _button_callback # None
         /\ \A i \in 1..Len(_plugins) :
              _plugins[i].name = calls[k].plugin => Matched(_plugins[i])

C2_Witness ==
  \E i \in 1..Len(_plugins) :
     /\ signal[_plugins[i].name] = 1
     /\ HasPanel(_plugins[i])
     /\ Matched(_plugins[i])
     /\ _button_callback # None

GetPanelsReturned == op.kind = "get_plugin_panels" /\ ret.kind = "get_plugin_panels"

LastTitled(title) ==
  _plugins[CHOOSE i \in 1..Len(_plugins) :
             /\ Matched(_plugins[i]) /\ HasPanel(_plugins[i]) /\ Title(_plugins[i]) = title
             /\ \A k \in (i + 1)..Len(_plugins) :
                  ~(Matched(_plugins[k]) /\ HasPanel(_plugins[k])
                    /\ Title(_plugins[k]) = title)]

C4_Claimed ==
  \A i \in 1..Len(_plugins) :
    LET plugin == _plugins[i]
        mine == PluginCalls(plugin.name)
    IN /\ Visited(i)
       /\ Accepts(plugin, op.path)
       /\ plugin.connected_devices = << PluginDeviceInfo(InputDevice(op.path)) >>
       /\ HasPanel(plugin)
       /\ ~Constructs(plugin.name) \/ plugin.panel_instance > 1
       => /\ plugin.panel_instance = 1
          /\ ~Constructs(plugin.name)
          /\ Len(mine) = 2
          /\ IsCall(mine[1], "on_device_connected", 0, op.path)
          /\ IsCall(mine[2], "active", 1, 0)

\* C5 as claimed: plugin-panel-available has been dispatched exactly once for
\* every record that has a panel, and at most once for any plugin.
C5_Claimed ==
  /\ \A i \in 1..Len(_plugins) :
       HasPanel(_plugins[i]) => events.available[_plugins[i].name] = 1
  /\ \A name \in Names : events.available[name] <= 1

\* thread t takes a step of _handle_device_disconnected
DisconnectStep(t) ==
  /\ mon'[t] # mon[t]
  /\ \/ mon[t].pc = "disconnected"
     \/ mon[t].pc = "events" /\ mon[t].new_paths = {} /\ mon[t].removed_paths # {}

\* C6: a step of the disconnect handler that visits a record which has a
\* panel and holds the path removes the device, keeps the panel instance, and
\* calls on_device_disconnected for the path, followed by active(-1) exactly
\* when the record is left holding no device; it makes no other call.
C6_DisconnectNotifiesThenDeactivates ==
  [][\A t \in Threads :
       LET i == IF mon[t].pc = "events" THEN 1 ELSE mon[t].i
           before == IF mon[t].pc = "events" THEN 0 ELSE Len(calls)
           new == SubSeq(calls', before + 1, Len(calls'))
           path == mon'[t].path
       IN DisconnectStep(t) /\ i <= Len(_plugins)
          /\ HasPanel(_plugins[i]) /\ Holds(_plugins[i], path)
          => /\ _plugins'[i].panel_instance = _plugins[i].panel_instance
             /\ ~Holds(_plugins'[i], path)
             /\ Len(new) >= 1
             /\ new[1].plugin = _plugins[i].name
             /\ IsCall(new[1], "on_device_disconnected", 0, path)
             /\ IF Matched(_plugins'[i])
                THEN Len(new) = 1
                ELSE /\ Len(new) = 2
                     /\ new[2].plugin = _plugins[i].name
                     /\ IsCall(new[2], "active", -1, 0)]_vars

\* one disconnect handler left one record's panel deactivated and another's not
C6_Witness ==
  /\ HandlerDone("disconnect")
  /\ faults = 0
  /\ \E i, k \in 1..Len(_plugins) :
       /\ HasPanel(_plugins[i]) /\ ~Matched(_plugins[i])
       /\ Len(PluginCalls(_plugins[i].name)) = 2
       /\ signal[_plugins[i].name] = -1
       /\ HasPanel(_plugins[k]) /\ Matched(_plugins[k])
       /\ Len(PluginCalls(_plugins[k].name)) = 1
       /\ signal[_plugins[k].name] = 1

\* C7 as claimed: no exception has left a manager operation, and no monitor
\* thread was ended by one.
C7_Claimed ==
  /\ escaped = {}
  /\ \A t \in Threads : mon[t].pc # "dead"

\* C8: once start() has run, no exception has left it, and every bundle has
\* either its record in the registry and no load error, or no record and
\* exactly one load error.
C8_EveryBundleOneOutcome ==
  started =>
    /\ "start" \notin escaped
    /\ \A name \in Names :
         \/ Loaded(name) /\ events.load_error[name] = 0
         \/ ~Loaded(name) /\ events.load_error[name] = 1

InIteration(t) == mon[t].pc \in {"events", "connected", "disconnected"}

\* C9 as claimed: in an iteration whose enumeration succeeded, the handlers
\* called so far are one connect for each new path no longer pending and one
\* disconnect for each removed path no longer pending, and none else; and
\* the thread leaves the iteration only with the known set replaced by the
\* current set.
C9_Claimed ==
  \A t \in Threads :
    LET f == mon[t]
    IN /\ InIteration(t) \/ f.pc = "dead" =>
            \A path \in Paths :
              /\ f.connects[path] =
                   IF path \in (f.current_paths \ f.known_devices) \ f.new_paths
                   THEN 1 ELSE 0
              /\ f.disconnects[path] =
                   IF path \in (f.known_devices \ f.current_paths) \ f.removed_paths
                   THEN 1 ELSE 0
       /\ ~InIteration(t) => f.known_devices = f.current_paths

\* C10: a step in which enumeration fails takes the thread to its back-off and
\* changes neither the known set, nor the handler calls of the iteration, nor
\* the registry, the panels' signals, the dispatched events or the log of
\* plugin calls; the back-off leads to the loop test, and the loop test, with
\* the running flag set, leads to the next enumeration.
C10_EnumerationFailureIsHarmless ==
  [][\A t \in Threads :
       /\ mon[t].pc = "list" /\ mon'[t].pc # "events" /\ mon'[t] # mon[t] =>
            /\ mon'[t] = [mon[t] EXCEPT !.pc = "backoff"]
            /\ UNCHANGED << _plugins, signal, events, calls, op, escaped >>
       /\ mon[t].pc = "backoff" /\ mon'[t] # mon[t] =>
            mon'[t] = [mon[t] EXCEPT !.pc = "while"]
       /\ mon[t].pc = "while" /\ _running /\ mon'[t] # mon[t] =>
            mon'[t] = [mon[t] EXCEPT !.pc = "list"]]_vars

\* enumeration failed while devices were known and matched to a record with a panel
C10_Witness ==
  \E t \in Threads :
    /\ mon[t].pc = "backoff"
    /\ mon[t].known_devices # {}
    /\ _running
    /\ \E i \in 1..Len(_plugins) : Matched(_plugins[i]) /\ HasPanel(_plugins[i])

\* thread t is not (or no longer) running _device_scan_loop
Terminated(t) == mon[t].pc \in {"none", "exited", "dead"}

\* C11: with the running flag cleared, no worker goes from the loop test (or
\* from anywhere but an enumeration already begun) to a new enumeration; and
\* once stop() has cleared the flag, every worker eventually terminates.
C11_StopEndsTheWorker ==
  /\ [][\A t \in Threads :
          ~_running /\ mon'[t].pc = "list" => mon[t].pc = "list"]_vars
  /\ (started /\ ~_running) ~> (\A t \in Threads : Terminated(t))

\* a worker that had polled with a device present left its loop after stop()
C11_Witness ==
  /\ started /\ ~_running
  /\ \E t \in Threads : mon[t].pc = "exited" /\ mon[t].known_devices # {}

\* C12 as claimed: at any moment at most one worker thread is running
\* _device_scan_loop.
C12_Claimed == Cardinality({t \in Threads : ~Terminated(t)}) <= 1

\* thread t is inside the with block of one of its handlers
InHandler(t) == mon[t].pc \in {"connected", "disconnected"}

\* C13: a step that changes or walks the registry (its records, their device
\* lists and panels, with the calls into the panels) is taken either with the
\* lock free, by the operation that takes it, or by the worker thread that
\* holds it; the lock is held exactly while one worker is inside a handler's
\* with block; and no plugin has had a second panel constructed.
C13_RegistryUnderLock ==
  /\ [][(_plugins' # _plugins \/ calls' # calls \/ op' # op
           \/ signal' # signal \/ next_id' # next_id)
          => \/ _plugins_lock = 0
             \/ \E t \in Threads : _plugins_lock = t /\ mon'[t] # mon[t]]_vars
  /\ [](\A t \in Threads : InHandler(t) <=> _plugins_lock = t)
  /\ [](\A name \in Names : next_id[name] <= 2)

\* the worker holds the lock between two records while the host, inside
\* get_plugin_panels, waits for it
C13_Witness ==
  /\ \E t \in Threads : InHandler(t) /\ _plugins_lock = t
  /\ ui = "get_plugin_panels"
  /\ \E i \in 1..Len(_plugins) : Matched(_plugins[i]) /\ ~HasPanel(_plugins[i])

\* the records that have a panel, in registry order
WithPanel == SelectSeq(_plugins, HasPanel)

\* C14: no exception ever leaves stop(); and when stop() has walked the
\* registry, the calls it made are shutdown() on the panel of each record
\* that has one, once each in registry order, whether or not one of them raised.
C14_StopShutsDownEveryPanel ==
  /\ "stop" \notin escaped
  /\ op.kind = "stop" =>
       /\ ret.kind = "stop"
       /\ Len(calls) = Len(WithPanel)
       /\ \A k \in 1..Len(calls) :
            /\ calls[k].plugin = WithPanel[k].name
            /\ IsCall(calls[k], "shutdown", 0, 0)

\* stop() went on to the second panel after the first panel's shutdown() raised
C14_Witness ==
  /\ op.kind = "stop"
  /\ Len(calls) = 2
  /\ calls[1].raised
  /\ calls[2].method = "shutdown" /\ calls[2].plugin # calls[1].plugin

\* the digits of a number written in base 16, lower case, without prefix
RECURSIVE ToHex(_)
ToHex(n) ==
  IF n < 16 THEN << HexDigits[n + 1] >>
  ELSE ToHex(n \div 16) \o << HexDigits[(n % 16) + 1] >>

\* a declared id stands for the number n: the integer itself, or the
\* hexadecimal string (with or without 0x) that is n written in base 16
Declares(x, n) ==
  \/ x.t = "int" /\ x.v = n
  \/ /\ x.t = "str"
     /\ \/ Lower(x.s) = ToHex(n)
        \/ Lower(x.s) = << "0", "x" >> \o ToHex(n)

\* two characters are the same letter in either case, or the same character
SameChar(a, b) ==
  \/ a = b
  \/ \E i \in 1..Len(Letters) : {a, b} = {Letters[i][1], Letters[i][2]}

\* the pattern occurs somewhere in the name, whatever the case of the letters
Found(pattern, name) ==
  \E at \in 1..(Len(name) - Len(pattern) + 1) :
     \A k \in 1..Len(pattern) : SameChar(name[at + k - 1], pattern[k])

\* a rule is satisfied as the claim states it
Satisfied(rule, device) ==
  \/ /\ rule.vendor_id.t # "none" /\ Declares(rule.vendor_id, device.vendor)
     /\ rule.product_id.t # "none" /\ Declares(rule.product_id, device.product)
  \/ rule.name_pattern.t # "none" /\ Found(rule.name_pattern.s, device.name)

\* C15: for every record and every device, matches(rules, device) is true
\* exactly when some rule of the list is satisfied (both ids declared and
\* equal to the device's, as integers or hexadecimal strings, or the pattern
\* found in the name whatever the case); and when the connect handler has run
\* for a device, the record holds it exactly in that case.
C15_MatchesIffSomeRuleSatisfied ==
  \A i \in 1..Len(_plugins) :
    LET rules == _plugins[i].metadata.devices
    IN /\ \A path \in Paths :
            matches(rules, InputDevice(path)) <=>
              \E k \in 1..Len(rules) : Satisfied(rules[k], InputDevice(path))
       /\ HandlerDone("connect") =>
            (Holds(_plugins[i], op.path) <=>
               \E k \in 1..Len(rules) : Satisfied(rules[k], InputDevice(op.path)))

\* a device was matched by the pattern of a rule whose id pair is another
\* device's, and rejected by a list whose only rule declares one id
C15_Witness ==
  /\ HandlerDone("connect")
  /\ Len(_plugins) = 1
  /\ LET rules == _plugins[1].metadata.devices
     IN \/ /\ Len(rules) = 1
           /\ rules[1].vendor_id = IntV(7) /\ rules[1].product_id = IntV(9)
           /\ rules[1].name_pattern.t = "str"
           /\ op.path = 1
           /\ Holds(_plugins[1], 1)
        \/ /\ Len(rules) = 2
           /\ rules[2].vendor_id.t = "str" /\ rules[2].product_id.t = "str"
           /\ rules[2].name_pattern.t = "none"
           /\ ~Satisfied(rules[1], InputDevice(1))
           /\ op.path = 1
           /\ Holds(_plugins[1], 1)

\* C16 as claimed: when the disconnect handler has run, every record whose
\* panel was announced with plugin-panel-available and whose device list is
\* now empty has had plugin-panel-unavailable dispatched for it.
C16_Claimed ==
  HandlerDone("disconnect") =>
    \A i \in 1..Len(_plugins) :
      /\ HasPanel(_plugins[i])
      /\ events.available[_plugins[i].name] > 0
      /\ ~Matched(_plugins[i])
      => events.unavailable[_plugins[i].name] > 0

\* C17: no step removes or renames a record of the registry or changes the
\* panel of a record that has one; and the panel a record has is the first
\* one constructed for it, no second one ever being constructed.
C17_PanelCreatedOnceAndKept ==
  /\ [][\A i \in 1..Len(_plugins) :
          /\ i <= Len(_plugins')
          /\ _plugins'[i].name = _plugins[i].name
          /\ HasPanel(_plugins[i]) =>
               _plugins'[i].panel_instance = _plugins[i].panel_instance]_vars
  /\ [](\A i \in 1..Len(_plugins) :
          /\ _plugins[i].panel_instance \in {NoPanel, 1}
          /\ next_id[_plugins[i].name] = IF HasPanel(_plugins[i]) THEN 2 ELSE 1)

\* a record that lost its last device still has its one panel when stop()
\* has shut the panels down
C17_Witness ==
  /\ op.kind = "stop"
  /\ \E i \in 1..Len(_plugins) :
       /\ HasPanel(_plugins[i]) /\ ~Matched(_plugins[i])
       /\ signal[_plugins[i].name] = -1
       /\ \E k \in 1..Len(calls) : calls[k].plugin = _plugins[i].name

\* C18: when get_active_plugins has returned, its result has exactly one
\* entry for each record that has a panel and holds a device, keyed by the
\* panel's preset identity and holding that panel; a record without device
\* or without panel has no entry.
C18_ActiveListsMatchedPanels ==
  op.kind = "get_active_plugins" /\ ret.kind = "get_active_plugins" =>
    /\ DOMAIN ret.value =
         { PresetDeviceName(_plugins[i]) :
             i \in { k \in 1..Len(_plugins) :
                       HasPanel(_plugins[k]) /\ Matched(_plugins[k]) } }
    /\ \A i \in 1..Len(_plugins) :
         HasPanel(_plugins[i]) /\ Matched(_plugins[i]) =>
           ret.value[PresetDeviceName(_plugins[i])] = PanelObject(_plugins[i])

\* the result lists one record's panel and leaves out the panel of a record
\* whose devices are gone
C18_Witness ==
  /\ op.kind = "get_active_plugins" /\ ret.kind = "get_active_plugins"
  /\ \E i, k \in 1..Len(_plugins) :
       /\ HasPanel(_plugins[i]) /\ Matched(_plugins[i])
       /\ PresetDeviceName(_plugins[i]) \in DOMAIN ret.value
       /\ HasPanel(_plugins[k]) /\ ~Matched(_plugins[k])
       /\ PresetDeviceName(_plugins[k]) \notin DOMAIN ret.value

\* the records that are active (hold a device), have a panel and whose
\* panel's preset identity is the one asked for
ActiveNamed(device_name) ==
  { i \in 1..Len(_plugins) :
      /\ Matched(_plugins[i]) /\ HasPanel(_plugins[i])
      /\ PresetDeviceName(_plugins[i]) = device_name }

\* the calls of one panel method that the latest locked operation made
CallsOf(method) == SelectSeq(calls, LAMBDA x : x.method = method)

\* C19 as claimed: when apply_plugin_preset_settings has run, it called
\* on_preset_loaded at most once, and only on the panel of an active record
\* with the given identity; when get_plugin_preset_settings has run, it called
\* get_preset_settings only on such a panel; and when no active record has the
\* given identity, neither raised and the get returned an empty result.
C19_Claimed ==
  /\ op.kind = "apply_plugin_preset_settings" =>
       /\ Len(CallsOf("on_preset_loaded")) <= 1
       /\ \A k \in 1..Len(CallsOf("on_preset_loaded")) :
            \E i \in ActiveNamed(op.name) :
               CallsOf("on_preset_loaded")[k].plugin = _plugins[i].name
       /\ ActiveNamed(op.name) = {} => ret.kind # "raised"
  /\ op.kind = "get_plugin_preset_settings" =>
       /\ \A k \in 1..Len(CallsOf("get_preset_settings")) :
            \E i \in ActiveNamed(op.name) :
               CallsOf("get_preset_settings")[k].plugin = _plugins[i].name
       /\ ActiveNamed(op.name) = {} =>
            ret.kind = "get_plugin_preset_settings" /\ ret.value = << >>

\* C20 as claimed: when the connect handler has visited a record and
\* constructed its panel, the calls it made to that panel are the
\* constructor, active(-2), on_device_connected once for each device the
\* record holds (the connecting device among them, once), and active(1) last.
C20_Claimed ==
  \A i \in 1..Len(_plugins) :
    LET plugin == _plugins[i]
        mine == PluginCalls(plugin.name)
        devices == plugin.connected_devices
    IN Visited(i) /\ Constructs(plugin.name) =>
         /\ Len(mine) = Len(devices) + 3
         /\ IsCall(mine[1], "__init__", 0, 0)
         /\ IsCall(mine[2], "active", -2, 0)
         /\ \A j \in 1..Len(devices) :
              IsCall(mine[2 + j], "on_device_connected", 0, devices[j].path)
         /\ Cardinality({k \in 1..Len(mine) :
                           IsCall(mine[k], "on_device_connected", 0, op.path)}) = 1
         /\ IsCall(mine[Len(mine)], "active", 1, 0)

\* C21 as claimed: no record's device list holds two descriptors with the
\* same path.
C21_Claimed ==
  \A i \in 1..Len(_plugins) :
    \A j, k \in 1..Len(_plugins[i].connected_devices) :
      _plugins[i].connected_devices[j].path = _plugins[i].connected_devices[k].path
        => j = k

\* stop() has cleared the running flag, shut the panels down and returned
Stopped == started /\ ~_running /\ ui = "idle"

\* C22 as claimed: a handler of the monitor that has run since stop()
\* returned has constructed no panel and called no panel method.
C22_Claimed ==
  Stopped /\ op.kind \in {"connect", "disconnect"} => calls = << >>

\* thread t has completed an iteration and has not begun handling the events
\* of the next one
BetweenIterations(t) == mon[t].pc \in {"while", "list", "backoff", "exited"}

\* C23 as claimed: whenever a worker is between two iterations, each record
\* holds exactly one descriptor for every path of the worker's known set that
\* its matcher accepts, and none for any other path.
C23_Claimed ==
  \A t \in Threads :
    BetweenIterations(t) =>
      \A i \in 1..Len(_plugins) :
        /\ \A path \in Paths :
             Holds(_plugins[i], path) <=>
               path \in mon[t].known_devices /\ Accepts(_plugins[i], path)
        /\ Len(_plugins[i].connected_devices) =
             Cardinality({path \in mon[t].known_devices : Accepts(_plugins[i], path)})

====
